---- MODULE Spec2Model ----
(***************************************************************************)
(* Model of src/src/app.rs: Runner::new, Runner::run, Runner::run_windowed *)
(* (the winit event-loop handler), Runner::frame and Runner::make_context, *)
(* together with the environment they run in: the OS event source, the GPU *)
(* device that completes submitted work, and the application callbacks.    *)
(***************************************************************************)
EXTENDS Naturals, FiniteSets

\* ------------------------------------------------------------------ bounds
\* Number of per-frame callback invocations after which no further redraw
\* event is delivered.
MaxFrames == 3
\* Frames the frame-in-flight manager lets be outstanding on the GPU.
MaxInFlight == 2
\* Handler invocations delivered after control flow became Exit.
MaxExitEvents == 2

\* ------------------------------------------------------------------ state
VARIABLES
  pc,              \* position of the single thread
  newWindow,       \* `window` argument of Runner::new was Some
  newCall,         \* what the call of Runner::new was given and did
  runWindow,       \* `window` argument of Runner::run was Some
  vkFrame,         \* self.vk.frame is Some
  vkSurface,       \* self.vk.surface is Some
  app,             \* the application object: "None" | "Alive" | "Dropped"
  controlFlow,     \* *control_flow: "Poll" | "Exit"
  pipelines,       \* rotation counter of self.pipelines
  descriptors,     \* rotation counter of self.descriptors
  event,           \* the event the handler was last invoked with
  redrawRequested, \* window.request_redraw() is pending
  pending,         \* GPU submissions not yet complete
  deviceLost,      \* the device is lost: waits on it return an error
  appHoldsCtx,     \* the application kept a Context it was given
  outstanding,     \* application callbacks entered and not yet returned
  frameCalls,      \* App::frame invocations
  framesOk,        \* Runner::frame calls that returned Ok
  callbacksOk,     \* App::frame calls that returned Ok
  errFrame,        \* index of the App::frame call that returned Err (0: none)
  runCalls,        \* App::run invocations
  closeSeen,       \* the handler was invoked with CloseRequested of the owned window
  waitIdleReturned,\* some wait_idle() call has returned
  idleAtDrop,      \* no GPU work was pending when the application was dropped
  exitEvents,      \* handler invocations made with control flow Exit
  lastUsed,        \* per cache: the modelled entry and when it was last used
  inFlight         \* frames (by number) whose GPU work is not complete

vars == <<pc, newWindow, newCall, runWindow, vkFrame, vkSurface, app, controlFlow, pipelines,
          descriptors, event, redrawRequested, pending, deviceLost,
          appHoldsCtx, outstanding, frameCalls, framesOk, callbacksOk, errFrame, runCalls,
          closeSeen, waitIdleReturned, idleAtDrop, exitEvents, lastUsed, inFlight>>

\* The variables no step of Runner::new / Runner::run touches.
loopVars == <<controlFlow, pipelines, descriptors, event, redrawRequested,
              frameCalls, framesOk, callbacksOk, errFrame, closeSeen, waitIdleReturned,
              idleAtDrop, exitEvents, lastUsed, inFlight>>

\* ------------------------------------------------------------------ events
OwnedWindow == "owned"
OtherWindow == "other"
NoWindow == "none"

\* winit::event::Event values the handler distinguishes.
Events ==
  {[kind |-> "CloseRequested", window |-> w] : w \in {OwnedWindow, OtherWindow}}
  \cup {[kind |-> "RedrawRequested", window |-> w] : w \in {OwnedWindow, OtherWindow}}
  \cup {[kind |-> "MainEventsCleared", window |-> NoWindow],
        [kind |-> "Other", window |-> NoWindow]}

NoEvent == [kind |-> "None", window |-> NoWindow]

\* Runner::new has not been called.
NoNewCall ==
  [validation |-> FALSE, init |-> "not_called", messenger |-> FALSE,
   pipelines |-> "not_called", descriptors |-> "not_called", outcome |-> "none"]

\* The two resource caches of the Runner, lines 117-118.
Caches == {"pipelines", "descriptors"}

\* A cache holds no entry for the modelled description.
NoEntry == [present |-> FALSE, idx |-> 0, frame |-> 0]

PcValues ==
  {"uninit", "new_failed", "constructed", "app_new", "idle", "exit_wait",
   "close_wait", "close_drop", "new_frame", "frame_active", "next_pipelines",
   "next_descriptors", "panicking", "terminated", "exited"}

Init ==
  /\ pc = "uninit"
  /\ newWindow = FALSE
  /\ newCall = NoNewCall
  /\ runWindow = FALSE
  /\ vkFrame = FALSE
  /\ vkSurface = FALSE
  /\ app = "None"
  /\ controlFlow = "Poll"
  /\ pipelines = 0
  /\ descriptors = 0
  /\ event = NoEvent
  /\ redrawRequested = FALSE
  /\ pending = 0
  /\ deviceLost = FALSE
  /\ appHoldsCtx = FALSE
  /\ outstanding = 0
  /\ frameCalls = 0
  /\ framesOk = 0
  /\ callbacksOk = 0
  /\ errFrame = 0
  /\ runCalls = 0
  /\ closeSeen = FALSE
  /\ waitIdleReturned = FALSE
  /\ idleAtDrop = FALSE
  /\ exitEvents = 0
  /\ lastUsed = [c \in Caches |-> NoEntry]
  /\ inFlight = {}

\* ------------------------------------------------------------ Runner::new
\* What initialize(&settings, headless) can return: an error, or a device
\* context whose surface and frame manager exist exactly when not headless
\* and whose debug messenger exists only when validation was requested.
initialize(validation, headless) ==
  {[ok |-> FALSE, frame |-> FALSE, surface |-> FALSE, messenger |-> FALSE]}
  \cup {[ok |-> TRUE, frame |-> ~headless, surface |-> ~headless, messenger |-> m] :
          m \in (IF validation THEN {TRUE, FALSE} ELSE {FALSE})}

\* Mutant of NewOutcome: an error of DescriptorCache::new is not propagated.
NewOutcome_IgnoreCacheError(r, pipelinesOk, descriptorsOk) ==
  IF ~r.ok THEN "new_failed"
  ELSE IF ~r.messenger THEN "panicking"
  ELSE IF ~pipelinesOk THEN "new_failed"
  ELSE "constructed"

\* How Runner::new ends, lines 161-183: `?` on initialize, the let-else on
\* Some(debug_messenger) with its panic!, `?` on PipelineCache::new and on
\* DescriptorCache::new, Ok(Self {..}).
NewOutcome(r, pipelinesOk, descriptorsOk) ==
  IF ~r.ok THEN "new_failed"
  ELSE IF ~r.messenger THEN "panicking"
  ELSE IF ~pipelinesOk THEN "new_failed"
  ELSE IF ~descriptorsOk THEN "new_failed"
  ELSE "constructed"

\* Runner::new(name, window, make_settings): `window` is Some iff hasWindow,
\* `validation` is the flag in the settings make_settings returned.
RunnerNew ==
  /\ pc = "uninit"
  /\ \E hasWindow \in BOOLEAN, validation \in BOOLEAN,
        pipelinesOk \in BOOLEAN, descriptorsOk \in BOOLEAN :
       \E r \in initialize(validation, ~hasWindow) :
         LET out == NewOutcome(r, pipelinesOk, descriptorsOk)
             pipelinesCalled == r.ok /\ r.messenger
             descriptorsCalled == pipelinesCalled /\ pipelinesOk
         IN
         /\ newWindow' = hasWindow
         /\ pc' = out
         /\ IF out = "constructed"
              THEN vkFrame' = r.frame /\ vkSurface' = r.surface
              ELSE UNCHANGED <<vkFrame, vkSurface>>
         /\ newCall' =
              [validation |-> validation,
               init |-> IF r.ok THEN "ok" ELSE "err",
               messenger |-> r.messenger,
               pipelines |-> IF ~pipelinesCalled THEN "not_called"
                             ELSE IF pipelinesOk THEN "ok" ELSE "err",
               descriptors |-> IF ~descriptorsCalled THEN "not_called"
                               ELSE IF descriptorsOk THEN "ok" ELSE "err",
               outcome |-> out]
  /\ UNCHANGED <<runWindow, app, pending, deviceLost, appHoldsCtx, outstanding, runCalls>>
  /\ UNCHANGED loopVars

\* ------------------------------------------------------------ Runner::run
\* Runner::run(self, window): E::new(self.make_context()) is called, the
\* Context moved into it. `window` is Some iff hasWindow.
RunnerRun ==
  /\ pc = "constructed"
  /\ \E hasWindow \in BOOLEAN : runWindow' = hasWindow
  /\ pc' = "app_new"
  /\ outstanding' = outstanding + 1
  /\ UNCHANGED <<newWindow, newCall, vkFrame, vkSurface, app, pending, deviceLost,
                 appHoldsCtx, runCalls>>
  /\ UNCHANGED loopVars

\* App::new returns; .unwrap(); then window.unwrap() and run_windowed.
AppNewReturn ==
  /\ pc = "app_new"
  /\ \E ok \in BOOLEAN, retain \in BOOLEAN, work \in 0..1 :
       /\ outstanding' = outstanding - 1
       /\ IF ~ok
            THEN /\ pc' = "panicking"
                 /\ UNCHANGED <<app, appHoldsCtx, pending>>
            ELSE /\ app' = "Alive"
                 /\ appHoldsCtx' = retain
                 /\ pending' = work
                 /\ pc' = IF runWindow THEN "idle" ELSE "panicking"
  /\ UNCHANGED <<newWindow, newCall, runWindow, vkFrame, vkSurface, deviceLost, runCalls>>
  /\ UNCHANGED loopVars

\* ------------------------------------------------ Runner::run_windowed
\* Fields set by Runner::new and never written by the event loop.
setupVars == <<newWindow, newCall, runWindow, vkFrame, vkSurface, runCalls>>

\* The cache state the event loop leaves alone outside a frame.
cacheVars == <<lastUsed, inFlight>>

\* The rotation counter of cache c.
Counter(c) == IF c = "pipelines" THEN pipelines ELSE descriptors

\* PipelineCache / DescriptorCache next_frame() on an entry, the counter
\* being `counter` before the call: the counter advances by one and the
\* entry is released when its last-used index is then older than the
\* in-flight depth.  A released entry keeps the record of its last use.
next_frame(entry, counter) ==
  IF entry.present /\ counter + 1 > entry.idx + MaxInFlight
    THEN [entry EXCEPT !.present = FALSE] ELSE entry

\* The frame callback calls get_or_create(description) on cache c: the
\* entry is realized if absent and marked used at the current rotation
\* index, by the frame being recorded.
GetOrCreate ==
  /\ pc = "frame_active"
  /\ \E c \in Caches :
       lastUsed' = [lastUsed EXCEPT
                      ![c] = [present |-> TRUE, idx |-> Counter(c), frame |-> frameCalls]]
  /\ UNCHANGED <<pc, app, controlFlow, pipelines, descriptors, event,
                 redrawRequested, pending, deviceLost, appHoldsCtx, outstanding,
                 frameCalls, framesOk, callbacksOk, errFrame, closeSeen,
                 waitIdleReturned, idleAtDrop, exitEvents, inFlight>>
  /\ UNCHANGED setupVars

\* self.vk.device.wait_idle(): returns once no submitted work is pending,
\* or at once with an error when the device is lost.
wait_idle_returns == pending = 0 \/ deviceLost
wait_idle_ok == ~deviceLost

\* Mutant of MatchArm: the guard of the close arm compares the window id
\* the wrong way round.
MatchArm_WrongWindow(ev) ==
  IF ev.kind = "CloseRequested" /\ ev.window # OwnedWindow THEN "close"
  ELSE IF ev.kind = "MainEventsCleared" THEN "cleared"
  ELSE IF ev.kind = "RedrawRequested" THEN "redraw"
  ELSE "ignored"

\* Mutant of MatchArm: the close arm has no guard on the window id.
MatchArm_AnyWindow(ev) ==
  IF ev.kind = "CloseRequested" THEN "close"
  ELSE IF ev.kind = "MainEventsCleared" THEN "cleared"
  ELSE IF ev.kind = "RedrawRequested" THEN "redraw"
  ELSE "ignored"

\* The arm of `match event` (lines 221-248) that an event selects.
MatchArm(ev) ==
  IF ev.kind = "CloseRequested" /\ ev.window = OwnedWindow THEN "close"
  ELSE IF ev.kind = "MainEventsCleared" THEN "cleared"
  ELSE IF ev.kind = "RedrawRequested" THEN "redraw"
  ELSE "ignored"

\* Mutant of HandlerReturned: the handler is entered again while the frame
\* callback of an earlier invocation has not returned.
HandlerReturned_Reentrant == pc \in {"idle", "frame_active"}

\* The event loop invokes the handler only after its previous invocation
\* has returned.
HandlerReturned == pc = "idle"

\* A pending redraw request is consumed by the delivery of RedrawRequested
\* for the owned window.
AfterDelivery(ev) ==
  IF ev.kind = "RedrawRequested" /\ ev.window = OwnedWindow
    THEN FALSE ELSE redrawRequested

\* The OS delivers `ev`: redraw events stop once MaxFrames callbacks ran.
Delivered(ev) ==
  /\ HandlerReturned
  /\ ev.kind = "RedrawRequested" => frameCalls < MaxFrames
  /\ event' = ev

\* Handler entry without the check of the control flow at lines 212-215.
HandlerEntry_NoExitCheck(ev) ==
  /\ Delivered(ev)
  /\ closeSeen' = (closeSeen \/ (ev.kind = "CloseRequested" /\ ev.window = OwnedWindow))

\* Handler entry with control flow not Exit: lines 212-216.
HandlerEntry(ev) ==
  /\ Delivered(ev)
  /\ controlFlow # "Exit"
  /\ closeSeen' = (closeSeen \/ (ev.kind = "CloseRequested" /\ ev.window = OwnedWindow))

\* Handler entry with control flow Exit: wait_idle().unwrap(); return.
ExitHandler ==
  /\ controlFlow = "Exit"
  /\ exitEvents < MaxExitEvents
  /\ \E ev \in Events : Delivered(ev) /\ redrawRequested' = AfterDelivery(ev)
  /\ exitEvents' = exitEvents + 1
  /\ pc' = "exit_wait"
  /\ UNCHANGED <<app, controlFlow, pipelines, descriptors, pending, deviceLost,
                 appHoldsCtx, outstanding, frameCalls, framesOk, callbacksOk, errFrame,
                 closeSeen, waitIdleReturned, idleAtDrop>>
  /\ UNCHANGED setupVars
  /\ UNCHANGED cacheVars

ExitWaitIdle ==
  /\ pc = "exit_wait"
  /\ wait_idle_returns
  /\ waitIdleReturned' = TRUE
  /\ pc' = IF wait_idle_ok THEN "idle" ELSE "panicking"
  /\ UNCHANGED <<app, controlFlow, pipelines, descriptors, event, redrawRequested,
                 pending, deviceLost, appHoldsCtx, outstanding, frameCalls,
                 framesOk, callbacksOk, errFrame, closeSeen, idleAtDrop, exitEvents>>
  /\ UNCHANGED setupVars
  /\ UNCHANGED cacheVars

\* Mutant of CloseRequested: the application is taken and dropped before
\* the idle wait.
CloseRequested_DropFirst ==
  /\ \E ev \in Events :
       /\ HandlerEntry(ev)
       /\ MatchArm(ev) = "close"
       /\ redrawRequested' = AfterDelivery(ev)
  /\ controlFlow' = "Exit"
  /\ app' = "Dropped"
  /\ appHoldsCtx' = FALSE
  /\ pc' = "close_wait"
  /\ UNCHANGED <<pipelines, descriptors, pending, deviceLost, outstanding,
                 frameCalls, framesOk, callbacksOk, errFrame, waitIdleReturned,
                 idleAtDrop, exitEvents>>
  /\ UNCHANGED setupVars
  /\ UNCHANGED cacheVars

\* CloseRequested arm, line 226: *control_flow = ControlFlow::Exit, then the
\* handler blocks in wait_idle().
CloseRequested ==
  /\ \E ev \in Events :
       /\ HandlerEntry(ev)
       /\ MatchArm(ev) = "close"
       /\ redrawRequested' = AfterDelivery(ev)
  /\ controlFlow' = "Exit"
  /\ pc' = "close_wait"
  /\ UNCHANGED <<app, pipelines, descriptors, pending, deviceLost, appHoldsCtx,
                 outstanding, frameCalls, framesOk, callbacksOk, errFrame, waitIdleReturned,
                 idleAtDrop, exitEvents>>
  /\ UNCHANGED setupVars
  /\ UNCHANGED cacheVars

\* Line 227: self.vk.device.wait_idle().unwrap() returns.
CloseWaitIdle ==
  /\ pc = "close_wait"
  /\ wait_idle_returns
  /\ waitIdleReturned' = TRUE
  /\ pc' = IF wait_idle_ok THEN "close_drop" ELSE "panicking"
  /\ UNCHANGED <<app, controlFlow, pipelines, descriptors, event, redrawRequested,
                 pending, deviceLost, appHoldsCtx, outstanding, frameCalls,
                 framesOk, callbacksOk, errFrame, closeSeen, idleAtDrop, exitEvents>>
  /\ UNCHANGED setupVars
  /\ UNCHANGED cacheVars

\* Mutant of CloseDropApp: the application is left in place.
CloseDropApp_Keep ==
  /\ pc = "close_drop"
  /\ pc' = "idle"
  /\ UNCHANGED <<app, appHoldsCtx, idleAtDrop, controlFlow, pipelines,
                 descriptors, event, redrawRequested, pending, deviceLost,
                 outstanding, frameCalls, framesOk, callbacksOk, errFrame, closeSeen,
                 waitIdleReturned, exitEvents>>
  /\ UNCHANGED setupVars
  /\ UNCHANGED cacheVars

\* Lines 228-234: app.take() and drop.
CloseDropApp ==
  /\ pc = "close_drop"
  /\ IF app = "Alive"
       THEN /\ app' = "Dropped"
            /\ appHoldsCtx' = FALSE
            /\ idleAtDrop' = (pending = 0)
       ELSE UNCHANGED <<app, appHoldsCtx, idleAtDrop>>
  /\ pc' = "idle"
  /\ UNCHANGED <<controlFlow, pipelines, descriptors, event, redrawRequested,
                 pending, deviceLost, outstanding, frameCalls, framesOk, callbacksOk,
                 errFrame, closeSeen, waitIdleReturned, exitEvents>>
  /\ UNCHANGED setupVars
  /\ UNCHANGED cacheVars

\* Mutant of MainEventsCleared: the arm does not request a redraw.
MainEventsCleared_NoRequest ==
  /\ \E ev \in Events :
       /\ HandlerEntry(ev)
       /\ MatchArm(ev) = "cleared"
  /\ controlFlow' = "Poll"
  /\ pc' = "idle"
  /\ UNCHANGED <<app, pipelines, descriptors, pending, deviceLost, appHoldsCtx,
                 outstanding, frameCalls, framesOk, callbacksOk, errFrame,
                 waitIdleReturned, idleAtDrop, exitEvents, redrawRequested>>
  /\ UNCHANGED setupVars
  /\ UNCHANGED cacheVars

\* MainEventsCleared arm: window.request_redraw().
MainEventsCleared ==
  /\ \E ev \in Events :
       /\ HandlerEntry(ev)
       /\ MatchArm(ev) = "cleared"
  /\ redrawRequested' = TRUE
  /\ controlFlow' = "Poll"
  /\ pc' = "idle"
  /\ UNCHANGED <<app, pipelines, descriptors, pending, deviceLost, appHoldsCtx,
                 outstanding, frameCalls, framesOk, callbacksOk, errFrame, waitIdleReturned,
                 idleAtDrop, exitEvents>>
  /\ UNCHANGED setupVars
  /\ UNCHANGED cacheVars

\* `_ => ()`.
IgnoredEvent ==
  /\ \E ev \in Events :
       /\ HandlerEntry(ev)
       /\ MatchArm(ev) = "ignored"
       /\ redrawRequested' = AfterDelivery(ev)
  /\ controlFlow' = "Poll"
  /\ pc' = "idle"
  /\ UNCHANGED <<app, pipelines, descriptors, pending, deviceLost, appHoldsCtx,
                 outstanding, frameCalls, framesOk, callbacksOk, errFrame, waitIdleReturned,
                 idleAtDrop, exitEvents>>
  /\ UNCHANGED setupVars
  /\ UNCHANGED cacheVars

\* RedrawRequested(_) arm, lines 239-242, up to the unwraps of Runner::frame
\* (lines 197-199): make_context(), self.vk.frame.as_mut().unwrap(),
\* self.vk.surface.as_ref().unwrap().
RedrawRequested ==
  /\ \E ev \in Events :
       /\ HandlerEntry(ev)
       /\ MatchArm(ev) = "redraw"
       /\ redrawRequested' = AfterDelivery(ev)
  /\ controlFlow' = "Poll"
  /\ pc' = IF app # "Alive" THEN "idle"
           ELSE IF vkFrame /\ vkSurface THEN "new_frame" ELSE "panicking"
  /\ UNCHANGED <<app, pipelines, descriptors, pending, deviceLost, appHoldsCtx,
                 outstanding, frameCalls, framesOk, callbacksOk, errFrame, waitIdleReturned,
                 idleAtDrop, exitEvents>>
  /\ UNCHANGED setupVars
  /\ UNCHANGED cacheVars

\* Mutant of NewFrame: the pipeline cache is advanced when the callback is
\* entered instead of after it has returned.
NewFrame_AdvanceEarly ==
  /\ pc = "new_frame"
  /\ pending < MaxInFlight \/ deviceLost
  /\ \E backendOk \in BOOLEAN :
       IF deviceLost \/ ~backendOk
         THEN /\ pc' = "panicking"
              /\ UNCHANGED <<frameCalls, outstanding, pipelines>>
         ELSE /\ pc' = "frame_active"
              /\ frameCalls' = frameCalls + 1
              /\ outstanding' = outstanding + 1
              /\ pipelines' = pipelines + 1
  /\ UNCHANGED <<app, controlFlow, descriptors, event, redrawRequested,
                 pending, deviceLost, appHoldsCtx, framesOk, callbacksOk, errFrame, closeSeen,
                 waitIdleReturned, idleAtDrop, exitEvents>>
  /\ UNCHANGED setupVars
  /\ UNCHANGED cacheVars

\* block_on(frame.new_frame(..)) up to the call of the closure: the frame
\* manager waits until fewer than MaxInFlight frames are in flight, and fails
\* without calling the closure on a backend error.
NewFrame ==
  /\ pc = "new_frame"
  /\ pending < MaxInFlight \/ deviceLost
  /\ \E backendOk \in BOOLEAN :
       IF deviceLost \/ ~backendOk
         THEN /\ pc' = "panicking"
              /\ UNCHANGED <<frameCalls, outstanding>>
         ELSE /\ pc' = "frame_active"
              /\ frameCalls' = frameCalls + 1
              /\ outstanding' = outstanding + 1
  /\ UNCHANGED <<app, controlFlow, pipelines, descriptors, event, redrawRequested,
                 pending, deviceLost, appHoldsCtx, framesOk, callbacksOk, errFrame, closeSeen,
                 waitIdleReturned, idleAtDrop, exitEvents>>
  /\ UNCHANGED setupVars
  /\ UNCHANGED cacheVars

\* Mutant of FrameResult: the Result is discarded instead of unwrapped.
FrameResult_Swallow(result) == "next_pipelines"

\* What becomes of the Result of Runner::frame at line 242: .unwrap().
FrameResult(result) == IF result = "ok" THEN "next_pipelines" ELSE "panicking"

\* app.frame(ctx, ifc) returns; on Ok new_frame submits and presents, which
\* can fail in turn; Runner::frame returns and line 242 unwraps its result.
FrameReturn ==
  /\ pc = "frame_active"
  /\ \E callbackOk \in BOOLEAN, backendOk \in BOOLEAN, retain \in BOOLEAN :
     LET result == IF ~callbackOk THEN "callback_err"
                   ELSE IF ~backendOk THEN "backend_err" ELSE "ok" IN
       /\ outstanding' = outstanding - 1
       /\ callbacksOk' = IF callbackOk THEN callbacksOk + 1 ELSE callbacksOk
       /\ appHoldsCtx' = (appHoldsCtx \/ retain)
       /\ pending' = IF result = "ok" THEN pending + 1 ELSE pending
       /\ framesOk' = IF result = "ok" THEN framesOk + 1 ELSE framesOk
       /\ errFrame' = IF result = "callback_err" THEN frameCalls ELSE errFrame
       /\ inFlight' = IF result = "ok" THEN inFlight \cup {frameCalls} ELSE inFlight
       /\ pc' = FrameResult(result)
  /\ UNCHANGED <<app, controlFlow, pipelines, descriptors, event, redrawRequested,
                 deviceLost, frameCalls, closeSeen, waitIdleReturned,
                 idleAtDrop, exitEvents, lastUsed>>
  /\ UNCHANGED setupVars

\* Line 243: self.pipelines.next_frame().
\* The pipeline cache is advanced twice for one frame.
NextFramePipelines_Twice ==
  /\ pc = "next_pipelines"
  /\ pipelines' = pipelines + 2
  /\ lastUsed' = [lastUsed EXCEPT
                    !.pipelines = next_frame(next_frame(@, pipelines), pipelines + 1)]
  /\ UNCHANGED inFlight
  /\ pc' = "next_descriptors"
  /\ UNCHANGED <<app, controlFlow, descriptors, event, redrawRequested, pending,
                 deviceLost, appHoldsCtx, outstanding, frameCalls, framesOk,
                 callbacksOk, errFrame, closeSeen, waitIdleReturned, idleAtDrop,
                 exitEvents>>
  /\ UNCHANGED setupVars

\* The pipeline cache advance waits for the device to be idle.
NextFramePipelines_WaitIdle ==
  /\ pc = "next_pipelines"
  /\ pending = 0
  /\ pipelines' = pipelines + 1
  /\ lastUsed' = [lastUsed EXCEPT !.pipelines = next_frame(@, pipelines)]
  /\ UNCHANGED inFlight
  /\ pc' = "next_descriptors"
  /\ UNCHANGED <<app, controlFlow, descriptors, event, redrawRequested, pending,
                 deviceLost, appHoldsCtx, outstanding, frameCalls, framesOk,
                 callbacksOk, errFrame, closeSeen, waitIdleReturned, idleAtDrop,
                 exitEvents>>
  /\ UNCHANGED setupVars

NextFramePipelines ==
  /\ pc = "next_pipelines"
  /\ pipelines' = pipelines + 1
  /\ lastUsed' = [lastUsed EXCEPT !.pipelines = next_frame(@, pipelines)]
  /\ UNCHANGED inFlight
  /\ pc' = "next_descriptors"
  /\ UNCHANGED <<app, controlFlow, descriptors, event, redrawRequested, pending,
                 deviceLost, appHoldsCtx, outstanding, frameCalls, framesOk, callbacksOk,
                 errFrame, closeSeen, waitIdleReturned, idleAtDrop, exitEvents>>
  /\ UNCHANGED setupVars

\* Mutant of NextFrameDescriptors: the descriptor cache is not advanced.
NextFrameDescriptors_Skip ==
  /\ pc = "next_descriptors"
  /\ pc' = "idle"
  /\ UNCHANGED <<app, controlFlow, pipelines, descriptors, event, redrawRequested,
                 pending, deviceLost, appHoldsCtx, outstanding, frameCalls,
                 framesOk, callbacksOk, errFrame, closeSeen, waitIdleReturned, idleAtDrop,
                 exitEvents>>
  /\ UNCHANGED setupVars
  /\ UNCHANGED cacheVars

\* Line 244 advancing the pipeline cache a second time instead of the
\* descriptor cache.
NextFrameDescriptors_Pipelines ==
  /\ pc = "next_descriptors"
  /\ pipelines' = pipelines + 1
  /\ lastUsed' = [lastUsed EXCEPT !.pipelines = next_frame(@, pipelines)]
  /\ UNCHANGED inFlight
  /\ pc' = "idle"
  /\ UNCHANGED <<app, controlFlow, descriptors, event, redrawRequested, pending,
                 deviceLost, appHoldsCtx, outstanding, frameCalls, framesOk,
                 callbacksOk, errFrame, closeSeen, waitIdleReturned, idleAtDrop,
                 exitEvents>>
  /\ UNCHANGED setupVars

\* Line 244: self.descriptors.next_frame(); the handler returns.
NextFrameDescriptors ==
  /\ pc = "next_descriptors"
  /\ descriptors' = descriptors + 1
  /\ lastUsed' = [lastUsed EXCEPT !.descriptors = next_frame(@, descriptors)]
  /\ UNCHANGED inFlight
  /\ pc' = "idle"
  /\ UNCHANGED <<app, controlFlow, pipelines, event, redrawRequested, pending,
                 deviceLost, appHoldsCtx, outstanding, frameCalls, framesOk, callbacksOk,
                 errFrame, closeSeen, waitIdleReturned, idleAtDrop, exitEvents>>
  /\ UNCHANGED setupVars

\* ------------------------------------------------------------ environment
\* The frame submitted first among those in flight.
Oldest(frames) == CHOOSE f \in frames : \A g \in frames : f <= g

\* The GPU completes one submission, in submission order: the work
\* App::new submitted, then the frames.
GpuComplete ==
  /\ pending > 0
  /\ ~deviceLost
  /\ pc \notin {"terminated", "exited"}
  /\ pending' = pending - 1
  /\ inFlight' = IF pending > Cardinality(inFlight)
                   THEN inFlight ELSE inFlight \ {Oldest(inFlight)}
  /\ UNCHANGED lastUsed
  /\ UNCHANGED <<pc, app, controlFlow, pipelines, descriptors, event,
                 redrawRequested, deviceLost, appHoldsCtx, outstanding,
                 frameCalls, framesOk, callbacksOk, errFrame, closeSeen, waitIdleReturned,
                 idleAtDrop, exitEvents>>
  /\ UNCHANGED setupVars

\* The device is lost (VK_ERROR_DEVICE_LOST from then on).
DeviceLoss ==
  /\ ~deviceLost
  /\ pc \notin {"uninit", "new_failed", "panicking", "terminated", "exited"}
  /\ deviceLost' = TRUE
  /\ UNCHANGED <<pc, app, controlFlow, pipelines, descriptors, event,
                 redrawRequested, pending, appHoldsCtx, outstanding, frameCalls,
                 framesOk, callbacksOk, errFrame, closeSeen, waitIdleReturned, idleAtDrop,
                 exitEvents>>
  /\ UNCHANGED setupVars
  /\ UNCHANGED cacheVars

\* A panic (a failed unwrap, the panic! of Runner::new) unwinds the stack:
\* the application object, if constructed and not yet taken, is dropped by
\* the unwinding, with no wait_idle() before it.
Unwind ==
  /\ pc = "panicking"
  /\ pc' = "terminated"
  /\ IF app = "Alive"
       THEN /\ app' = "Dropped"
            /\ appHoldsCtx' = FALSE
            /\ idleAtDrop' = (pending = 0)
       ELSE UNCHANGED <<app, appHoldsCtx, idleAtDrop>>
  /\ UNCHANGED <<controlFlow, pipelines, descriptors, event, redrawRequested,
                 pending, deviceLost, outstanding, frameCalls, framesOk, callbacksOk,
                 errFrame, closeSeen, waitIdleReturned, exitEvents>>
  /\ UNCHANGED setupVars
  /\ UNCHANGED cacheVars

\* A panic in a build with panic = "abort": the process ends, nothing is
\* dropped.
Abort ==
  /\ pc = "panicking"
  /\ pc' = "terminated"
  /\ UNCHANGED <<app, controlFlow, pipelines, descriptors, event, redrawRequested,
                 pending, deviceLost, appHoldsCtx, outstanding, frameCalls,
                 framesOk, callbacksOk, errFrame, closeSeen, waitIdleReturned, idleAtDrop,
                 exitEvents>>
  /\ UNCHANGED setupVars
  /\ UNCHANGED cacheVars

\* With control flow Exit the event loop ends the process.
ProcessExit ==
  /\ pc = "idle"
  /\ controlFlow = "Exit"
  /\ pc' = "exited"
  /\ UNCHANGED <<app, controlFlow, pipelines, descriptors, event, redrawRequested,
                 pending, deviceLost, appHoldsCtx, outstanding, frameCalls,
                 framesOk, callbacksOk, errFrame, closeSeen, waitIdleReturned, idleAtDrop,
                 exitEvents>>
  /\ UNCHANGED setupVars
  /\ UNCHANGED cacheVars

Next ==
  \/ RunnerNew
  \/ RunnerRun
  \/ AppNewReturn
  \/ ExitHandler
  \/ ExitWaitIdle
  \/ CloseRequested
  \/ CloseWaitIdle
  \/ CloseDropApp
  \/ MainEventsCleared
  \/ IgnoredEvent
  \/ RedrawRequested
  \/ NewFrame
  \/ GetOrCreate
  \/ FrameReturn
  \/ NextFramePipelines
  \/ NextFrameDescriptors
  \/ GpuComplete
  \/ DeviceLoss
  \/ Unwind
  \/ Abort
  \/ ProcessExit

Spec == Init /\ [][Next]_vars

\* The single thread takes its next step whenever it can (a blocking wait
\* returns once its condition holds, a callback that was entered returns),
\* and the GPU completes the work submitted to it. Event delivery and device
\* loss are not fair.
FairSpec ==
  /\ Spec
  /\ WF_vars(GpuComplete)
  /\ WF_vars(AppNewReturn)
  /\ WF_vars(ExitWaitIdle)
  /\ WF_vars(CloseWaitIdle)
  /\ WF_vars(CloseDropApp)
  /\ WF_vars(NewFrame)
  /\ WF_vars(FrameReturn)
  /\ WF_vars(NextFramePipelines)
  /\ WF_vars(NextFrameDescriptors)
  /\ WF_vars(Unwind \/ Abort)

\* The windowing system delivers the redraw that window.request_redraw()
\* asked for, to the owned window.
OwnedRedrawDelivery ==
  /\ redrawRequested
  /\ RedrawRequested
  /\ event' = [kind |-> "RedrawRequested", window |-> OwnedWindow]

\* FairSpec with an event loop that keeps iterating: while the handler can
\* be invoked with them, MainEventsCleared is delivered again and again and
\* a requested redraw is delivered.
LiveSpec ==
  /\ FairSpec
  /\ SF_vars(MainEventsCleared)
  /\ SF_vars(OwnedRedrawDelivery)

\* ------------------------------------------------------------------ claims

\* C1: on the close path the application object is still alive for the whole
\* of the idle wait, and once it has been dropped after a close signal a
\* wait_idle() call has returned: the drop neither precedes nor overlaps the
\* wait.
C1_IdleWaitBeforeDrop ==
  /\ pc = "close_wait" => app = "Alive"
  /\ (closeSeen /\ app = "Dropped") => waitIdleReturned

\* A close signal was handled after frames were rendered: the wait found the
\* device idle and the application was dropped.
C1_Witness ==
  /\ closeSeen
  /\ app = "Dropped"
  /\ idleAtDrop
  /\ framesOk > 0
  /\ pc = "idle"

\* C2: when App::frame returns an error on frame K the Runner halts: no
\* further callback is invoked (K stays the number of invocations) and
\* neither rotation counter is advanced for frame K (both stay K - 1).
C2_HaltOnFrameError ==
  errFrame # 0 =>
    /\ pc \in {"panicking", "terminated"}
    /\ frameCalls = errFrame
    /\ framesOk = errFrame - 1
    /\ pipelines = framesOk
    /\ descriptors = framesOk

\* The second frame's callback failed after a first successful frame.
C2_Witness ==
  /\ errFrame = 2
  /\ pipelines = 1
  /\ pc = "terminated"

\* C3: outside the two advance steps of a frame both rotation counters
\* equal the number of completed frames (Runner::frame returned Ok), which
\* whenever the handler has returned is the number of frame callbacks that
\* returned Ok; and no step decreases a counter.
C3_CountersEqualFrames ==
  /\ [](pc \notin {"next_pipelines", "next_descriptors"} =>
          pipelines = framesOk /\ descriptors = framesOk)
  /\ [](pc \in {"idle", "exited"} => callbacksOk = framesOk)
  /\ [][pipelines' >= pipelines /\ descriptors' >= descriptors]_vars

\* MaxFrames frames completed and both counters advanced for each.
C3_Witness ==
  /\ pc = "idle"
  /\ framesOk = MaxFrames
  /\ pipelines = MaxFrames
  /\ descriptors = MaxFrames

\* C4 as stated: when a cache is about to be advanced no Context handed to
\* the application is alive any more, neither in a running callback nor
\* retained by the application.
C4_NoContextAtAdvance ==
  pc \in {"next_pipelines", "next_descriptors"} =>
    outstanding = 0 /\ ~appHoldsCtx

\* C4 as amended: a rotation counter is advanced only in a step taken while
\* no application callback is in progress, and only for a frame whose
\* callback has already returned Ok.
C4_AdvanceAfterCallbackReturned ==
  [][/\ pipelines' # pipelines =>
          outstanding = 0 /\ outstanding' = 0 /\ framesOk = pipelines + 1
     /\ descriptors' # descriptors =>
          outstanding = 0 /\ outstanding' = 0 /\ framesOk = descriptors + 1]_vars

\* The pipeline cache has been advanced while the application retains a
\* Context.
C4_Witness ==
  /\ pc = "next_descriptors"
  /\ pipelines = 1
  /\ appHoldsCtx

\* C5: a headless Runner has no surface and no frame manager; a headless
\* execution in which the application was constructed has invoked App::run
\* exactly once and App::frame never by the time it ends; a windowed one
\* never invokes App::run.
C5_OneCallbackKind ==
  /\ (pc \notin {"uninit", "new_failed"} /\ ~newWindow) => (~vkFrame /\ ~vkSurface)
  /\ (~newWindow /\ ~runWindow /\ app # "None" /\ pc = "terminated") =>
       (runCalls = 1 /\ frameCalls = 0)
  /\ (newWindow /\ runWindow) => runCalls = 0

\* C6: the application object is only ever dropped right after a wait_idle()
\* that found the device idle.
C6_DroppedOnlyAfterIdle ==
  app = "Dropped" => idleAtDrop

\* C7: once the handler has been invoked with the close signal of the owned
\* window, no step invokes the frame callback, advances a cache, enters the
\* close arm a second time or leaves control flow Exit.
C7_ShutdownFinal ==
  [][closeSeen =>
       /\ frameCalls' = frameCalls
       /\ pipelines' = pipelines
       /\ descriptors' = descriptors
       /\ (pc # "close_wait" => pc' # "close_wait")
       /\ (controlFlow = "Exit" => controlFlow' = "Exit")]_vars

\* After the close was handled a redraw request was delivered, while frames
\* could still have been rendered, and the handler returned without one.
C7_Witness ==
  /\ closeSeen
  /\ pc = "idle"
  /\ exitEvents > 0
  /\ event.kind = "RedrawRequested"
  /\ framesOk > 0
  /\ frameCalls < MaxFrames
  /\ pipelines = framesOk

\* C8: at most one application callback is outstanding, it is outstanding
\* only inside App::new or App::frame, and none is outstanding while the
\* handler waits for idle or drops the application.
C8_SerialCallbacks ==
  /\ outstanding <= 1
  /\ outstanding = 1 => pc \in {"app_new", "frame_active"}
  /\ pc \in {"close_wait", "close_drop", "exit_wait"} => outstanding = 0

\* The close signal is being handled after frames were rendered, with GPU
\* work still in flight and no callback in progress.
C8_Witness ==
  /\ pc = "close_wait"
  /\ frameCalls > 0
  /\ pending > 0
  /\ outstanding = 0

\* C9: whenever the handler has entered the idle wait of the close arm, the
\* application object is eventually dropped, unless the device is lost.
C9_ShutdownCompletes ==
  (pc = "close_wait") ~> (app = "Dropped" \/ deviceLost)

\* The close signal arrived with the maximum number of frames in flight.
C9_Witness ==
  /\ pc = "close_wait"
  /\ pending = MaxInFlight
  /\ ~deviceLost

\* C10: the frame callback is only ever running for a RedrawRequested event
\* of the owned window.
C10_FrameOnlyForOwnedRedraw ==
  pc = "frame_active" =>
    event = [kind |-> "RedrawRequested", window |-> OwnedWindow]

\* C11: a MainEventsCleared handled before any close signal leaves a redraw
\* requested; and, with the event loop iterating, from every state in which
\* the handler has returned and no close signal was seen a frame callback is
\* eventually invoked, unless a close signal arrives or the process panics.
C11_ContinuousRendering ==
  /\ []((event.kind = "MainEventsCleared" /\ ~closeSeen) => redrawRequested)
  /\ (pc = "idle" /\ ~closeSeen /\ frameCalls < MaxFrames)
       ~> (pc = "frame_active" \/ closeSeen \/ pc \in {"panicking", "terminated"})

\* MainEventsCleared was handled after a completed frame and a redraw is
\* requested.
C11_Witness ==
  /\ event.kind = "MainEventsCleared"
  /\ redrawRequested
  /\ ~closeSeen
  /\ framesOk > 0
  /\ framesOk < MaxFrames
  /\ pc = "idle"

\* An event that is neither CloseRequested of the owned window, nor
\* MainEventsCleared, nor RedrawRequested.
IsOtherEvent(ev) ==
  /\ ev.kind \notin {"MainEventsCleared", "RedrawRequested"}
  /\ ~(ev.kind = "CloseRequested" /\ ev.window = OwnedWindow)

\* A step in which the handler is invoked with an event of the other kinds
\* (only a handler invocation changes `event` or counts an exit event).
OtherEventStep ==
  /\ pc = "idle"
  /\ event' # event \/ exitEvents' # exitEvents
  /\ IsOtherEvent(event')

\* C12 as stated: a handler invocation with an event of the other kinds
\* leaves the application object, both rotation counters and the shutdown
\* state unchanged and starts no callback and no idle wait: the handler
\* returns at once.
C12_OtherEventsIgnored ==
  [][OtherEventStep =>
       /\ app' = app
       /\ pipelines' = pipelines
       /\ descriptors' = descriptors
       /\ controlFlow' = controlFlow
       /\ closeSeen' = closeSeen
       /\ frameCalls' = frameCalls
       /\ outstanding' = outstanding
       /\ pc' = "idle"]_vars

\* C12 as amended: such an invocation leaves the application object, both
\* rotation counters and the shutdown state unchanged and starts no
\* callback; it starts no idle wait while control flow is not Exit, and
\* starts the idle wait of the exit branch once control flow is Exit.
C12_OtherEventsIgnoredUnlessExit ==
  [][OtherEventStep =>
       /\ app' = app
       /\ pipelines' = pipelines
       /\ descriptors' = descriptors
       /\ controlFlow' = controlFlow
       /\ closeSeen' = closeSeen
       /\ frameCalls' = frameCalls
       /\ outstanding' = outstanding
       /\ pc' = IF controlFlow = "Exit" THEN "exit_wait" ELSE "idle"]_vars

\* A close request for another window was handled while the application was
\* running, and the handler returned with the application alive.
C12_Witness ==
  /\ event = [kind |-> "CloseRequested", window |-> OtherWindow]
  /\ pc = "idle"
  /\ controlFlow = "Poll"
  /\ app = "Alive"
  /\ ~closeSeen
  /\ framesOk > 0

\* C13: when initialize succeeds, Runner::new ends in its panic exactly when
\* validation was requested and no debug messenger came back; with
\* validation disabled a missing messenger is no fatal error.
C13_MessengerOnlyWhenValidation ==
  newCall.init = "ok" =>
    (newCall.outcome = "panicking" <=> (newCall.validation /\ ~newCall.messenger))

\* C14: when initialize, PipelineCache::new or DescriptorCache::new fails,
\* Runner::new has returned the error and the execution stays there: no
\* Runner, no application object, no callback, no cache advance, no retry.
C14_ConstructionFailureIsFinal ==
  (newCall.init = "err" \/ newCall.pipelines = "err" \/ newCall.descriptors = "err") =>
    /\ pc = "new_failed"
    /\ newCall.outcome = "new_failed"
    /\ app = "None"
    /\ ~vkFrame /\ ~vkSurface
    /\ outstanding = 0
    /\ frameCalls = 0
    /\ pipelines = 0
    /\ descriptors = 0

\* DescriptorCache::new failed after initialize and PipelineCache::new
\* succeeded.
C14_Witness ==
  /\ newCall.init = "ok"
  /\ newCall.pipelines = "ok"
  /\ newCall.descriptors = "err"
  /\ pc = "new_failed"

HandlerStep ==
  \/ ExitWaitIdle
  \/ CloseWaitIdle
  \/ CloseDropApp
  \/ NewFrame
  \/ FrameReturn
  \/ NextFramePipelines
  \/ NextFrameDescriptors

\* The thread is inside the handler and cannot take its next step: it is
\* blocked until the GPU makes progress.
Suspended ==
  /\ pc \in {"exit_wait", "close_wait", "close_drop", "new_frame",
              "frame_active", "next_pipelines", "next_descriptors"}
  /\ ~ENABLED HandlerStep

\* C16 as stated: the only point of the event loop at which the Runner is
\* blocked on GPU-side progress is the new_frame wait of Runner::frame.
C16_SuspendsOnlyInNewFrame == Suspended => pc = "new_frame"

\* C16 amended: the Runner is blocked on GPU-side progress only in the
\* new_frame wait of Runner::frame, once per frame, or in the device idle
\* wait of the close arm; the idle wait of the exit branch never blocks and
\* no other step of the handler waits for the GPU.
C16_SuspendsOnlyInNewFrameOrClose ==
  /\ Suspended => pc \in {"new_frame", "close_wait"}
  /\ pc = "new_frame" => outstanding = 0 /\ frameCalls = framesOk
  /\ pc = "exit_wait" => wait_idle_returns

\* The Runner is blocked in new_frame for a second or later frame, the
\* in-flight depth being exhausted by the frames before it.
C16_Witness ==
  /\ Suspended
  /\ pc = "new_frame"
  /\ framesOk >= MaxInFlight
  /\ Cardinality(inFlight) = MaxInFlight

\* C17: whenever Runner::frame executes (the redraw arm found the
\* application alive), the frame-in-flight manager and the presentation
\* surface are present, whatever windows Runner::new and Runner::run were
\* given.
C17_FrameUnwrapsSucceed ==
  [][(pc = "idle" /\ pc' \in {"new_frame", "panicking"})
       => (vkFrame /\ vkSurface)]_vars

\* C18: once control flow is Exit it stays Exit, and from then on no step
\* requests a redraw, invokes the frame callback or advances a cache; an
\* invocation of the handler goes to the device idle wait only, and that
\* wait leaves the application object as it is and returns to the event
\* loop (or panics on the error of a lost device).
C18_ExitIsSticky ==
  [][controlFlow = "Exit" =>
       /\ controlFlow' = "Exit"
       /\ redrawRequested' => redrawRequested
       /\ frameCalls' = frameCalls
       /\ outstanding' = outstanding
       /\ pipelines' = pipelines
       /\ descriptors' = descriptors
       /\ lastUsed' = lastUsed
       /\ pc = "idle" => pc' \in {"idle", "exit_wait", "exited"}
       /\ pc = "exit_wait" =>
            /\ pc' \in {"exit_wait", "idle", "panicking"}
            /\ pc' = "panicking" => deviceLost
            /\ app' = app]_vars

\* With control flow Exit the handler was invoked twice more, the last
\* time for MainEventsCleared, and returned with no redraw requested, no
\* further frame and the caches where the last frame left them.
C18_Witness ==
  /\ controlFlow = "Exit"
  /\ pc = "idle"
  /\ exitEvents >= 2
  /\ event.kind = "MainEventsCleared"
  /\ ~redrawRequested
  /\ frameCalls < MaxFrames
  /\ pipelines = frameCalls
  /\ descriptors = frameCalls

\* C19: the two rotation counters are equal whenever the thread is not
\* between the two advances, in particular between any two invocations of
\* the handler; the pipeline cache is advanced first and the descriptor
\* cache by the very next step of the thread, with no frame callback
\* entered or running in between.
C19_CachesAdvanceTogether ==
  /\ [](pc # "next_descriptors" => pipelines = descriptors)
  /\ [](pc = "next_descriptors" =>
          pipelines = descriptors + 1 /\ outstanding = 0)
  /\ [][/\ pipelines' # pipelines =>
            (/\ pc = "next_pipelines"
             /\ pc' = "next_descriptors"
             /\ pipelines' = pipelines + 1
             /\ descriptors' = descriptors)
        /\ descriptors' # descriptors =>
            (/\ pc = "next_descriptors"
             /\ pc' = "idle"
             /\ descriptors' = descriptors + 1
             /\ pipelines' = pipelines)
        /\ pc = "next_descriptors" =>
            (/\ pc' \in {"next_descriptors", "idle"}
             /\ frameCalls' = frameCalls)]_vars

\* The second frame's pipeline advance is done and its descriptor advance
\* is still to come.
C19_Witness ==
  /\ pc = "next_descriptors"
  /\ pipelines = 2
  /\ descriptors = 1
  /\ framesOk = 2

TypeOK ==
  /\ pc \in PcValues
  /\ app \in {"None", "Alive", "Dropped"}
  /\ controlFlow \in {"Poll", "Exit"}
  /\ pipelines \in 0..MaxFrames
  /\ descriptors \in 0..MaxFrames
  /\ event \in Events \cup {NoEvent}
  /\ pending \in 0..MaxInFlight
  /\ outstanding \in 0..1
  /\ frameCalls \in 0..MaxFrames
  /\ framesOk \in 0..MaxFrames
  /\ callbacksOk \in 0..MaxFrames
  /\ errFrame \in 0..MaxFrames
  /\ exitEvents \in 0..MaxExitEvents
  /\ lastUsed \in [Caches -> [present : BOOLEAN, idx : 0..MaxFrames, frame : 0..MaxFrames]]
  /\ inFlight \subseteq 1..MaxFrames
  /\ Cardinality(inFlight) <= pending
====
